---- MODULE Spec2Model ----
(***************************************************************************)
(* Model of rds_helpers.py: thin wrappers over the RDS administrative API  *)
(* (boto3) and over a MySQL driver connection (pymysql).                   *)
(*                                                                         *)
(* Every python function is an operator that computes, from its arguments  *)
(* and from the outcomes of the external steps it performs (env), what the *)
(* call does: the requests it issues, whether it returns or lets an        *)
(* exception reach the caller, and the value it returns.  One action per   *)
(* function applies the operator and lets the provider / the driver react. *)
(*                                                                         *)
(* Failures of external steps are exceptions derived from Exception        *)
(* (botocore and pymysql errors, KeyError, IndexError, AttributeError),    *)
(* which is what "except Exception" catches.                               *)
(***************************************************************************)
EXTENDS Integers, Sequences, FiniteSets, TLC

\* ---------------------------------------------------------------- bounds
MaxInstances == 3      \* number of distinct instance identifiers
MaxRows == 2           \* longest result set a statement yields

\* ------------------------------------------------------- program constants
DefaultAllocatedStorage == 20

\* --------------------------------------------------------------- universes
Ids == 1..MaxInstances                     \* instance identifiers
Classes == {"db.t3.small"}                  \* caller-supplied instance classes
Engines == {"postgres"}                     \* caller-supplied engines
Storages == {50}                            \* caller-supplied storage sizes
SnapshotIds == {"snap-a"}
Queries == {"SELECT", "INSERT"}
RowValues == {<<1>>, <<2>>}

\* the provider's describe call returns at most one page of records per call
\* (MaxRecords, 100 by default); scaled so that an account can exceed a page
PageSize == MaxInstances - 1

VARIABLES
    instances,     \* provider: identifier -> "absent" | "creating" | "available"
    connection,    \* what the caller holds: "unbound" | "None" | "conn"
    connOpen,      \* driver: the connection handle is open
    cursorState,   \* cursor of the last execute_query: "none" | "open" | "closed"
    op,            \* the last function called
    args,          \* its arguments
    env,           \* the outcomes of the external steps it performed
    requests,      \* the administrative requests it issued
    driverCalls,   \* the driver calls it made
    outcome,       \* "return" | "raise" (an exception reached the caller)
    ret            \* the value returned

vars == <<instances, connection, connOpen, cursorState, op, args, env,
          requests, driverCalls, outcome, ret>>

\* ------------------------------------------------------------ python values
None == [kind |-> "None"]
Value(v) == [kind |-> "value", val |-> v]
Raised == [kind |-> "raised"]
EmptyDict == [k \in {} |-> TRUE]

Return(reqs, r) == [requests |-> reqs, outcome |-> "return", ret |-> r]
Propagate(reqs) == [requests |-> reqs, outcome |-> "raise", ret |-> Raised]

ApiRaise == [status |-> "raise"]
ApiOk(r) == [status |-> "ok", response |-> r]

\* a keyword argument left out of the call takes the parameter's default
Bind(kwargs, name, default) ==
    IF name \in DOMAIN kwargs THEN kwargs[name] ELSE default

Restrict(f, S) == [n \in S |-> f[n]]

OptionalNames == {"db_instance_class", "engine", "allocated_storage"}

Kwargs ==
    { Restrict(f, S) :
        f \in [db_instance_class : Classes, engine : Engines,
               allocated_storage : Storages],
        S \in SUBSET OptionalNames }

\* ------------------------------------------------------------ the provider
Address(id) == <<"host", id>>

InstanceRecord(id, status) ==
    IF status = "available"
    THEN [DBInstanceIdentifier |-> id, DBInstanceStatus |-> status,
          Endpoint |-> [Address |-> Address(id)]]
    ELSE [DBInstanceIdentifier |-> id, DBInstanceStatus |-> status]

RECURSIVE HeldFrom(_, _)
HeldFrom(inst, i) ==
    IF i > MaxInstances THEN <<>>
    ELSE IF inst[i] = "absent" THEN HeldFrom(inst, i + 1)
    ELSE <<InstanceRecord(i, inst[i])>> \o HeldFrom(inst, i + 1)

\* every instance record the account holds, in the provider's order
Held(inst) == HeldFrom(inst, 1)

Min(a, b) == IF a < b THEN a ELSE b

\* describe_db_instances() without a marker: the first page; a Marker is
\* present when more records remain
FirstPage(inst) ==
    LET all == Held(inst)
        page == SubSeq(all, 1, Min(PageSize, Len(all)))
    IN IF Len(all) > PageSize
       THEN [DBInstances |-> page, Marker |-> "next"]
       ELSE [DBInstances |-> page]

\* the outcomes of a provider call: it raises, or it answers with a response
CreateOutcomes(inst, request) ==
    {ApiRaise} \cup
    (IF inst[request.DBInstanceIdentifier] = "absent"
     THEN {ApiOk(EmptyDict),
           ApiOk([DBInstance |->
                    [DBInstanceIdentifier |-> request.DBInstanceIdentifier,
                     DBInstanceStatus |-> "creating",
                     DBInstanceClass |-> request.DBInstanceClass,
                     Engine |-> request.Engine,
                     AllocatedStorage |-> request.AllocatedStorage]])}
     ELSE {})

\* the waiter polls until the instance is available, or gives up and raises
WaitOutcomes(inst, id) ==
    {"raise"} \cup (IF inst[id] # "absent" THEN {"ok"} ELSE {})

\* describe of one identifier: the matching records (none, or one; a record
\* has an Endpoint with an Address once the instance is available), or a
\* response without the DBInstances key
DescribeOutcomes(inst, id) ==
    {ApiRaise, ApiOk(EmptyDict)} \cup
    (CASE inst[id] = "absent" -> {ApiOk([DBInstances |-> <<>>])}
       [] inst[id] = "creating" ->
            {ApiOk([DBInstances |-> <<InstanceRecord(id, "creating")>>]),
             ApiOk([DBInstances |->
                      <<[DBInstanceIdentifier |-> id,
                         DBInstanceStatus |-> "creating",
                         Endpoint |-> EmptyDict]>>])}
       [] OTHER -> {ApiOk([DBInstances |-> <<InstanceRecord(id, inst[id])>>])})

ListOutcomes(inst) == {ApiRaise, ApiOk(EmptyDict), ApiOk(FirstPage(inst))}

ModifyOutcomes(inst, request) ==
    {ApiRaise} \cup
    (IF inst[request.DBInstanceIdentifier] # "absent"
     THEN {ApiOk(EmptyDict),
           ApiOk([DBInstance |->
                    [DBInstanceIdentifier |-> request.DBInstanceIdentifier,
                     DBInstanceClass |-> request.DBInstanceClass]])}
     ELSE {})

DeleteOutcomes(inst, request) ==
    {ApiRaise} \cup
    (IF inst[request.DBInstanceIdentifier] # "absent"
     THEN {ApiOk(EmptyDict),
           ApiOk([DBInstance |->
                    [DBInstanceIdentifier |-> request.DBInstanceIdentifier,
                     DBInstanceStatus |-> "deleting"]])}
     ELSE {})

SnapshotOutcomes(inst, request) ==
    {ApiRaise} \cup
    (IF inst[request.DBInstanceIdentifier] = "available"
     THEN {ApiOk(EmptyDict),
           ApiOk([DBSnapshot |->
                    [DBSnapshotIdentifier |-> request.DBSnapshotIdentifier,
                     DBInstanceIdentifier |-> request.DBInstanceIdentifier]])}
     ELSE {})

\* boto3.client('rds') raises, or gives a client on which the call is made
ClientEnvs(outcomes) ==
    {[client |-> "raise"]} \cup {[client |-> "ok", api |-> a] : a \in outcomes}

\* ------------------------------------------------------ python subscripting
Found(v) == [ok |-> TRUE, v |-> v]
Missing == [ok |-> FALSE]

\* d[k] on a dict: KeyError when the key is absent
Key(m, k) ==
    IF m.ok THEN (IF k \in DOMAIN m.v THEN Found(m.v[k]) ELSE Missing)
    ELSE Missing

\* l[i] on a list (0-based): IndexError when out of range
Index(m, i) ==
    IF m.ok THEN (IF i + 1 <= Len(m.v) THEN Found(m.v[i + 1]) ELSE Missing)
    ELSE Missing

\* ------------------------------------------------- provisioning operations
\* faulty variant: the storage size is fixed instead of taken from the argument
CreateRequest_fixed_storage(db_instance_identifier, master_username, master_password, kwargs) ==
    [Operation |-> "create_db_instance",
     DBInstanceIdentifier |-> db_instance_identifier,
     MasterUsername |-> master_username,
     MasterUserPassword |-> master_password,
     AllocatedStorage |-> DefaultAllocatedStorage,
     DBInstanceClass |-> Bind(kwargs, "db_instance_class", "db.t2.micro"),
     Engine |-> Bind(kwargs, "engine", "mysql"),
     PubliclyAccessible |-> TRUE,
     MultiAZ |-> FALSE,
     Tags |-> <<[Key |-> "Name", Value |-> db_instance_identifier]>>]

CreateRequest(db_instance_identifier, master_username, master_password, kwargs) ==
    [Operation |-> "create_db_instance",
     DBInstanceIdentifier |-> db_instance_identifier,
     MasterUsername |-> master_username,
     MasterUserPassword |-> master_password,
     AllocatedStorage |-> Bind(kwargs, "allocated_storage", DefaultAllocatedStorage),
     DBInstanceClass |-> Bind(kwargs, "db_instance_class", "db.t2.micro"),
     Engine |-> Bind(kwargs, "engine", "mysql"),
     PubliclyAccessible |-> TRUE,
     MultiAZ |-> FALSE,
     Tags |-> <<[Key |-> "Name", Value |-> db_instance_identifier]>>]

create_rds_instance(db_instance_identifier, master_username, master_password, kwargs, e) ==
    LET request == CreateRequest(db_instance_identifier, master_username,
                                 master_password, kwargs)
    IN IF e.client = "raise" THEN Propagate(<<>>)
       ELSE IF e.api.status = "raise" THEN Return(<<request>>, None)
       ELSE Return(<<request>>, Value(e.api.response))

WaitRequest(db_instance_identifier) ==
    [Operation |-> "wait", Waiter |-> "db_instance_available",
     DBInstanceIdentifier |-> db_instance_identifier]

wait_for_rds_instance_available(db_instance_identifier, e) ==
    IF e.client = "raise" THEN Propagate(<<>>)
    ELSE IF e.waiter = "raise" THEN Propagate(<<>>)
    ELSE Return(<<WaitRequest(db_instance_identifier)>>, None)

DescribeRequest(db_instance_identifier) ==
    [Operation |-> "describe_db_instances",
     DBInstanceIdentifier |-> db_instance_identifier]

\* faulty variant: the address is read from the response outside the try
get_rds_instance_endpoint_unguarded(db_instance_identifier, e) ==
    LET request == DescribeRequest(db_instance_identifier)
    IN IF e.client = "raise" THEN Propagate(<<>>)
       ELSE IF e.api.status = "raise" THEN Return(<<request>>, None)
       ELSE LET endpoint ==
                  Key(Key(Index(Key(Found(e.api.response), "DBInstances"), 0),
                          "Endpoint"), "Address")
            IN IF endpoint.ok THEN Return(<<request>>, Value(endpoint.v))
               ELSE Propagate(<<request>>)

get_rds_instance_endpoint(db_instance_identifier, e) ==
    LET request == DescribeRequest(db_instance_identifier)
    IN IF e.client = "raise" THEN Propagate(<<>>)
       ELSE IF e.api.status = "raise" THEN Return(<<request>>, None)
       ELSE LET endpoint ==
                  Key(Key(Index(Key(Found(e.api.response), "DBInstances"), 0),
                          "Endpoint"), "Address")
            IN IF endpoint.ok THEN Return(<<request>>, Value(endpoint.v))
               ELSE Return(<<request>>, None)

ListRequest == [Operation |-> "describe_db_instances"]

list_rds_instances(e) ==
    IF e.client = "raise" THEN Propagate(<<>>)
    ELSE IF e.api.status = "raise" THEN Return(<<ListRequest>>, None)
    ELSE LET found == Key(Found(e.api.response), "DBInstances")
         IN IF found.ok THEN Return(<<ListRequest>>, Value(found.v))
            ELSE Return(<<ListRequest>>, None)

ModifyRequest(db_instance_identifier, new_instance_class) ==
    [Operation |-> "modify_db_instance",
     DBInstanceIdentifier |-> db_instance_identifier,
     DBInstanceClass |-> new_instance_class]

\* faulty variant: an empty response is taken for a failure
modify_rds_instance_falsy(db_instance_identifier, new_instance_class, e) ==
    LET request == ModifyRequest(db_instance_identifier, new_instance_class)
    IN IF e.client = "raise" THEN Propagate(<<>>)
       ELSE IF e.api.status = "raise" THEN Return(<<request>>, None)
       ELSE IF DOMAIN e.api.response = {} THEN Return(<<request>>, None)
       ELSE Return(<<request>>, Value(e.api.response))

modify_rds_instance(db_instance_identifier, new_instance_class, e) ==
    LET request == ModifyRequest(db_instance_identifier, new_instance_class)
    IN IF e.client = "raise" THEN Propagate(<<>>)
       ELSE IF e.api.status = "raise" THEN Return(<<request>>, None)
       ELSE Return(<<request>>, Value(e.api.response))

\* faulty variant: the deletion asks for a final snapshot
DeleteRequest_final_snapshot(db_instance_identifier) ==
    [Operation |-> "delete_db_instance",
     DBInstanceIdentifier |-> db_instance_identifier,
     SkipFinalSnapshot |-> FALSE]

DeleteRequest(db_instance_identifier) ==
    [Operation |-> "delete_db_instance",
     DBInstanceIdentifier |-> db_instance_identifier,
     SkipFinalSnapshot |-> TRUE]

delete_rds_instance(db_instance_identifier, e) ==
    LET request == DeleteRequest(db_instance_identifier)
    IN IF e.client = "raise" THEN Propagate(<<>>)
       ELSE IF e.api.status = "raise" THEN Return(<<request>>, None)
       ELSE Return(<<request>>, Value(e.api.response))

SnapshotRequest(db_instance_identifier, snapshot_identifier) ==
    [Operation |-> "create_db_snapshot",
     DBSnapshotIdentifier |-> snapshot_identifier,
     DBInstanceIdentifier |-> db_instance_identifier]

create_db_snapshot(db_instance_identifier, snapshot_identifier, e) ==
    LET request == SnapshotRequest(db_instance_identifier, snapshot_identifier)
    IN IF e.client = "raise" THEN Propagate(<<>>)
       ELSE IF e.api.status = "raise" THEN Return(<<request>>, None)
       ELSE Return(<<request>>, Value(e.api.response))

\* the provider acted on the request: the client existed and the call succeeded
Succeeded(e) == e.client = "ok" /\ e.api.status = "ok"

\* what every provisioning call leaves: its record, and the data plane untouched
Finish(name, a, e, r) ==
    /\ op' = name
    /\ args' = a
    /\ env' = e
    /\ requests' = r.requests
    /\ outcome' = r.outcome
    /\ ret' = r.ret
    /\ driverCalls' = <<>>
    /\ UNCHANGED <<connection, connOpen, cursorState>>

CreateRdsInstance ==
    \E id \in Ids, kwargs \in Kwargs :
      \E e \in ClientEnvs(CreateOutcomes(instances,
                            CreateRequest(id, "admin", "pw123", kwargs))) :
        /\ Finish("create_rds_instance",
                  [db_instance_identifier |-> id, master_username |-> "admin",
                   master_password |-> "pw123", kwargs |-> kwargs],
                  e, create_rds_instance(id, "admin", "pw123", kwargs, e))
        /\ instances' = IF Succeeded(e)
                        THEN [instances EXCEPT ![id] = "creating"]
                        ELSE instances

WaitEnvs(inst, id) ==
    {[client |-> "raise"], [client |-> "ok", waiter |-> "raise"]} \cup
    {[client |-> "ok", waiter |-> "ok", wait |-> w] : w \in WaitOutcomes(inst, id)}

WaitForRdsInstanceAvailable ==
    \E id \in Ids :
      \E e \in WaitEnvs(instances, id) :
        /\ Finish("wait_for_rds_instance_available",
                  [db_instance_identifier |-> id], e,
                  wait_for_rds_instance_available(id, e))
        /\ instances' = IF e.client = "ok" /\ e.waiter = "ok" /\ e.wait = "ok"
                        THEN [instances EXCEPT ![id] = "available"]
                        ELSE instances

GetRdsInstanceEndpoint ==
    \E id \in Ids :
      \E e \in ClientEnvs(DescribeOutcomes(instances, id)) :
        /\ Finish("get_rds_instance_endpoint",
                  [db_instance_identifier |-> id], e,
                  get_rds_instance_endpoint(id, e))
        /\ UNCHANGED instances

ListRdsInstances ==
    \E e \in ClientEnvs(ListOutcomes(instances)) :
      /\ Finish("list_rds_instances", EmptyDict, e, list_rds_instances(e))
      /\ UNCHANGED instances

ModifyRdsInstance ==
    \E id \in Ids, cls \in Classes :
      \E e \in ClientEnvs(ModifyOutcomes(instances, ModifyRequest(id, cls))) :
        /\ Finish("modify_rds_instance",
                  [db_instance_identifier |-> id, new_instance_class |-> cls],
                  e, modify_rds_instance(id, cls, e))
        /\ UNCHANGED instances

DeleteRdsInstance ==
    \E id \in Ids :
      \E e \in ClientEnvs(DeleteOutcomes(instances, DeleteRequest(id))) :
        /\ Finish("delete_rds_instance", [db_instance_identifier |-> id],
                  e, delete_rds_instance(id, e))
        /\ instances' = IF Succeeded(e)
                        THEN [instances EXCEPT ![id] = "absent"]
                        ELSE instances

CreateDbSnapshot ==
    \E id \in Ids, snap \in SnapshotIds :
      \E e \in ClientEnvs(SnapshotOutcomes(instances, SnapshotRequest(id, snap))) :
        /\ Finish("create_db_snapshot",
                  [db_instance_identifier |-> id, snapshot_identifier |-> snap],
                  e, create_db_snapshot(id, snap, e))
        /\ UNCHANGED instances

\* ----------------------------------------------------------- the data plane
Endpoints == {None} \cup {Value(Address(id)) : id \in Ids}

\* every result set of at most MaxRows rows, in the order the driver fetches
ResultSets == UNION {[1..n -> RowValues] : n \in 0..MaxRows}

\* pymysql.connect reaches a server only at the address of an available
\* instance; it may raise in any case
ConnectOutcomes(inst, endpoint) ==
    {"raise"} \cup
    (IF endpoint.kind = "value" /\
        \E id \in Ids : inst[id] = "available" /\ endpoint.val = Address(id)
     THEN {"ok"} ELSE {})

\* the driver's part in one execute_query: the first driver call that raises
\* (fails), whether releasing the cursor raises, the rows fetched, and whether
\* the driver dropped the connection on the failure.  On a closed connection
\* cursor.execute raises at the latest.
ExecEnvs(open) ==
    {[fails |-> "cursor", drops |-> d] : d \in BOOLEAN} \cup
    {[fails |-> "execute", release |-> r, drops |-> d] :
        r \in {"ok", "raise"}, d \in BOOLEAN} \cup
    (IF open
     THEN {[fails |-> f, release |-> r, drops |-> d] :
              f \in {"commit", "fetchall"}, r \in {"ok", "raise"}, d \in BOOLEAN}
          \cup {[fails |-> "none", release |-> "ok", rows |-> rs, drops |-> FALSE] :
                  rs \in ResultSets}
          \cup {[fails |-> "none", release |-> "raise", rows |-> rs, drops |-> d] :
                  rs \in ResultSets, d \in BOOLEAN}
     ELSE {})

\* connection.close() raises on a connection that is already closed
CloseEnvs(open) == IF open THEN {[close |-> "ok"], [close |-> "raise"]}
                   ELSE {[close |-> "raise"]}

create_db_connection(endpoint, username, password, database, e) ==
    [driverCalls |-> <<<<"connect", endpoint, username, password, database>>>>,
     outcome |-> "return",
     ret |-> IF e.connect = "raise" THEN None ELSE Value("conn")]

\* faulty variant: the rows are fetched before the commit
Body_commit_last(query, e) ==
    CASE e.fails = "execute" -> <<<<"execute", query>>>>
      [] e.fails = "fetchall" -> <<<<"execute", query>>, <<"fetchall">>>>
      [] OTHER -> <<<<"execute", query>>, <<"fetchall">>, <<"commit">>>>

\* the statements of the with-block, up to the first one that raises
Body(query, e) ==
    CASE e.fails = "execute" -> <<<<"execute", query>>>>
      [] e.fails = "commit" -> <<<<"execute", query>>, <<"commit">>>>
      [] OTHER -> <<<<"execute", query>>, <<"commit">>, <<"fetchall">>>>

\* faulty variant: the cursor is closed by hand after the last statement
\* instead of by a with-block
execute_query_no_with(conn, query, e) ==
    IF conn = "None"
    THEN [driverCalls |-> <<>>, cursor |-> "none",
          outcome |-> "return", ret |-> None]
    ELSE IF e.fails = "cursor"
    THEN [driverCalls |-> <<<<"cursor">>>>, cursor |-> "none",
          outcome |-> "return", ret |-> None]
    ELSE IF e.fails # "none"
    THEN [driverCalls |-> <<<<"cursor">>>> \o Body(query, e),
          cursor |-> "open",
          outcome |-> "return", ret |-> None]
    ELSE [driverCalls |-> <<<<"cursor">>>> \o Body(query, e) \o <<<<"cursor.close">>>>,
          cursor |-> "closed",
          outcome |-> "return",
          ret |-> IF e.release = "ok" THEN Value(e.rows) ELSE None]

\* faulty variant: an empty result set is turned into None
execute_query_or_none(conn, query, e) ==
    IF conn = "None"
    THEN [driverCalls |-> <<>>, cursor |-> "none",
          outcome |-> "return", ret |-> None]
    ELSE IF e.fails = "cursor"
    THEN [driverCalls |-> <<<<"cursor">>>>, cursor |-> "none",
          outcome |-> "return", ret |-> None]
    ELSE [driverCalls |-> <<<<"cursor">>>> \o Body(query, e) \o <<<<"cursor.close">>>>,
          cursor |-> "closed",
          outcome |-> "return",
          ret |-> IF e.fails = "none" /\ e.release = "ok" /\ e.rows # <<>>
                  THEN Value(e.rows) ELSE None]

\* faulty variant: the cursor is acquired outside the try
execute_query_unguarded(conn, query, e) ==
    IF conn = "None"
    THEN [driverCalls |-> <<>>, cursor |-> "none",
          outcome |-> "raise", ret |-> Raised]
    ELSE IF e.fails = "cursor"
    THEN [driverCalls |-> <<<<"cursor">>>>, cursor |-> "none",
          outcome |-> "raise", ret |-> Raised]
    ELSE [driverCalls |-> <<<<"cursor">>>> \o Body(query, e) \o <<<<"cursor.close">>>>,
          cursor |-> "closed",
          outcome |-> "return",
          ret |-> IF e.fails = "none" /\ e.release = "ok"
                  THEN Value(e.rows) ELSE None]

execute_query(conn, query, e) ==
    IF conn = "None"
    THEN [driverCalls |-> <<>>, cursor |-> "none",
          outcome |-> "return", ret |-> None]
    ELSE IF e.fails = "cursor"
    THEN [driverCalls |-> <<<<"cursor">>>>, cursor |-> "none",
          outcome |-> "return", ret |-> None]
    ELSE [driverCalls |-> <<<<"cursor">>>> \o Body(query, e) \o <<<<"cursor.close">>>>,
          cursor |-> "closed",
          outcome |-> "return",
          ret |-> IF e.fails = "none" /\ e.release = "ok"
                  THEN Value(e.rows) ELSE None]

close_db_connection(conn, e) ==
    IF conn = "None"
    THEN [driverCalls |-> <<>>, outcome |-> "return", ret |-> None]
    ELSE [driverCalls |-> <<<<"close">>>>, outcome |-> "return", ret |-> None]

\* some driver call of the execute_query raised
DriverFailed(e) ==
    e.fails # "none" \/ (e.fails = "none" /\ e.release = "raise")

CreateDbConnection ==
    \E endpoint \in Endpoints :
      \E c \in ConnectOutcomes(instances, endpoint) :
        LET a == [endpoint |-> endpoint, username |-> "admin",
                  password |-> "pw123", database |-> "appdb"]
            e == [connect |-> c]
            r == create_db_connection(endpoint, "admin", "pw123", "appdb", e)
        IN /\ op' = "create_db_connection"
           /\ args' = a
           /\ env' = e
           /\ requests' = <<>>
           /\ driverCalls' = r.driverCalls
           /\ outcome' = r.outcome
           /\ ret' = r.ret
           /\ connection' = IF r.ret.kind = "None" THEN "None" ELSE "conn"
           /\ connOpen' = (r.ret.kind = "value")
           /\ UNCHANGED <<instances, cursorState>>

ExecuteQuery ==
    /\ connection # "unbound"
    /\ \E query \in Queries :
         \E e \in (IF connection = "None" THEN {EmptyDict} ELSE ExecEnvs(connOpen)) :
           LET r == execute_query(connection, query, e)
           IN /\ op' = "execute_query"
              /\ args' = [connection |-> connection, query |-> query,
                          wasOpen |-> connOpen]
              /\ env' = e
              /\ requests' = <<>>
              /\ driverCalls' = r.driverCalls
              /\ outcome' = r.outcome
              /\ ret' = r.ret
              /\ cursorState' = r.cursor
              /\ connOpen' = IF connection = "None" THEN connOpen
                             ELSE IF DriverFailed(e) /\ e.drops THEN FALSE
                             ELSE connOpen
              /\ UNCHANGED <<instances, connection>>

CloseDbConnection ==
    /\ connection # "unbound"
    /\ \E e \in (IF connection = "None" THEN {EmptyDict} ELSE CloseEnvs(connOpen)) :
         LET r == close_db_connection(connection, e)
         IN /\ op' = "close_db_connection"
            /\ args' = [connection |-> connection, wasOpen |-> connOpen]
            /\ env' = e
            /\ requests' = <<>>
            /\ driverCalls' = r.driverCalls
            /\ outcome' = r.outcome
            /\ ret' = r.ret
            /\ connOpen' = FALSE
            /\ UNCHANGED <<instances, connection, cursorState>>

\* ------------------------------------------------------------ specification
Init ==
    /\ instances = [id \in Ids |-> "absent"]
    /\ connection = "unbound"
    /\ connOpen = FALSE
    /\ cursorState = "none"
    /\ op = "init"
    /\ args = EmptyDict
    /\ env = EmptyDict
    /\ requests = <<>>
    /\ driverCalls = <<>>
    /\ outcome = "return"
    /\ ret = None

Next ==
    \/ CreateRdsInstance
    \/ WaitForRdsInstanceAvailable
    \/ GetRdsInstanceEndpoint
    \/ ListRdsInstances
    \/ ModifyRdsInstance
    \/ DeleteRdsInstance
    \/ CreateDbSnapshot
    \/ CreateDbConnection
    \/ ExecuteQuery
    \/ CloseDbConnection

Spec == Init /\ [][Next]_vars

\* ------------------------------------------------------------------ claims
ProvisioningOps ==
    {"create_rds_instance", "wait_for_rds_instance_available",
     "get_rds_instance_endpoint", "list_rds_instances", "modify_rds_instance",
     "delete_rds_instance", "create_db_snapshot"}

PassThroughOps ==
    {"create_rds_instance", "modify_rds_instance", "delete_rds_instance",
     "create_db_snapshot"}

\* the describe response carries an Address under the Endpoint of its first
\* instance
HasAddress(resp) ==
    /\ "DBInstances" \in DOMAIN resp
    /\ Len(resp.DBInstances) >= 1
    /\ "Endpoint" \in DOMAIN resp.DBInstances[1]
    /\ "Address" \in DOMAIN resp.DBInstances[1].Endpoint

\* some step of the last provisioning call raised
StepFailed ==
    \/ env.client = "raise"
    \/ /\ op = "wait_for_rds_instance_available"
       /\ (env.waiter = "raise" \/ env.wait = "raise")
    \/ /\ op # "wait_for_rds_instance_available"
       /\ env.api.status = "raise"
    \/ /\ op = "get_rds_instance_endpoint"
       /\ ~HasAddress(env.api.response)
    \/ /\ op = "list_rds_instances"
       /\ "DBInstances" \notin DOMAIN env.api.response

\* C1: whatever step of a provisioning operation raises (building the client,
\* obtaining the waiter, the API call, reading the response), the operation
\* returns None and no exception reaches the caller.
C1_NoExceptionEscapes ==
    (op \in ProvisioningOps /\ StepFailed)
        => (outcome = "return" /\ ret.kind = "None")

\* C2: create, modify, delete and snapshot return exactly the response of a
\* provider call that did not raise, an empty response included, never None.
C2_ResponseReturnedUnchanged ==
    (op \in PassThroughOps /\ env.client = "ok" /\ env.api.status = "ok")
        => /\ outcome = "return"
           /\ ret.kind = "value"
           /\ ret.val = env.api.response

C2_Witness ==
    /\ op = "modify_rds_instance"
    /\ env.client = "ok"
    /\ env.api.status = "ok"
    /\ DOMAIN env.api.response = {}
    /\ ret.kind = "value"

\* C3: get_rds_instance_endpoint returns the Address under the Endpoint of the
\* first described instance; with an empty instance list, or a first instance
\* without Endpoint or Address, it returns None and nothing escapes.
C3_EndpointOrNone ==
    (op = "get_rds_instance_endpoint" /\ env.client = "ok" /\ env.api.status = "ok")
        => /\ outcome = "return"
           /\ IF HasAddress(env.api.response)
              THEN /\ ret.kind = "value"
                   /\ ret.val = env.api.response.DBInstances[1].Endpoint.Address
              ELSE ret.kind = "None"

C3_Witness ==
    /\ op = "get_rds_instance_endpoint"
    /\ env.client = "ok"
    /\ env.api.status = "ok"
    /\ "DBInstances" \in DOMAIN env.api.response
    /\ Len(env.api.response.DBInstances) = 1
    /\ instances[args.db_instance_identifier] = "creating"
    /\ outcome = "return"
    /\ ret.kind = "None"

\* the last call was an execute_query that acquired a cursor
CursorAcquired ==
    op = "execute_query" /\ args.connection = "conn" /\ env.fails # "cursor"

\* C4: an execute_query that acquired a cursor has released it when it
\* returns, whether the block finished or execute, commit or fetchall raised;
\* in the raising cases it returns None.  No state has a cursor left open.
C4_CursorReleased ==
    /\ cursorState # "open"
    /\ CursorAcquired
        => /\ cursorState = "closed"
           /\ driverCalls[Len(driverCalls)] = <<"cursor.close">>
           /\ env.fails \in {"execute", "commit", "fetchall"}
                => (outcome = "return" /\ ret.kind = "None")

C4_Witness ==
    /\ CursorAcquired
    /\ env.fails = "commit"
    /\ cursorState = "closed"
    /\ ret.kind = "None"

\* some step of the last execute_query raised
QueryStepRaised ==
    \/ args.connection = "None"
    \/ env.fails # "none"
    \/ env.release = "raise"

\* C5: execute_query returns None exactly when a step raised; otherwise it
\* returns the rows fetched, in order, and zero rows give an empty sequence.
C5_NoneIffRaised ==
    op = "execute_query"
        => /\ outcome = "return"
           /\ (ret.kind = "None") <=> QueryStepRaised
           /\ ~QueryStepRaised => (ret.kind = "value" /\ ret.val = env.rows)

C5_Witness ==
    /\ op = "execute_query"
    /\ args.connection = "conn"
    /\ env.fails = "none"
    /\ env.release = "ok"
    /\ env.rows = <<>>
    /\ ret.kind = "value"
    /\ ret.val = <<>>

\* C6: a create_rds_instance call issues one creation request; with the
\* optional arguments left out it has engine "mysql", storage 20, class
\* "db.t2.micro"; supplied values are carried as given; public access is on,
\* multi-AZ is off and the only tag is Name = the identifier.
C6_CreationRequest ==
    (op = "create_rds_instance" /\ env.client = "ok")
        => /\ Len(requests) = 1
           /\ LET r == requests[1]
                  k == args.kwargs
              IN /\ r.Operation = "create_db_instance"
                 /\ r.DBInstanceIdentifier = args.db_instance_identifier
                 /\ r.Engine = (IF "engine" \in DOMAIN k THEN k.engine ELSE "mysql")
                 /\ r.AllocatedStorage =
                      (IF "allocated_storage" \in DOMAIN k
                       THEN k.allocated_storage ELSE 20)
                 /\ r.DBInstanceClass =
                      (IF "db_instance_class" \in DOMAIN k
                       THEN k.db_instance_class ELSE "db.t2.micro")
                 /\ r.PubliclyAccessible = TRUE
                 /\ r.MultiAZ = FALSE
                 /\ r.Tags = <<[Key |-> "Name",
                                Value |-> args.db_instance_identifier]>>

C6_Witness ==
    /\ op = "create_rds_instance"
    /\ env.client = "ok"
    /\ DOMAIN args.kwargs = {}
    /\ Len(requests) = 1
    /\ requests[1].Engine = "mysql"

\* C7: every request delete_rds_instance issues is a deletion of the supplied
\* identifier with skip-final-snapshot set; it requests no snapshot.
C7_SkipFinalSnapshot ==
    /\ \A i \in 1..Len(requests) :
         requests[i].Operation = "delete_db_instance"
            => /\ op = "delete_rds_instance"
               /\ "SkipFinalSnapshot" \in DOMAIN requests[i]
               /\ requests[i].SkipFinalSnapshot = TRUE
               /\ requests[i].DBInstanceIdentifier = args.db_instance_identifier
    /\ op = "delete_rds_instance"
         => /\ \A i \in 1..Len(requests) :
                 requests[i].Operation = "delete_db_instance"
            /\ env.client = "ok" => Len(requests) = 1

C7_Witness ==
    /\ op = "delete_rds_instance"
    /\ Len(requests) = 1
    /\ requests[1].SkipFinalSnapshot = TRUE
    /\ ret.kind = "value"

\* C8: a successful list_rds_instances returns exactly the instance records
\* the account holds, however many pages the provider needs for them.
C8_ListsEveryInstance ==
    (/\ op = "list_rds_instances"
     /\ env.client = "ok"
     /\ env.api.status = "ok"
     /\ "DBInstances" \in DOMAIN env.api.response)
        => /\ ret.kind = "value"
           /\ ret.val = Held(instances)

\* the driver calls of the with-block, without acquiring and releasing
BodyCalls ==
    SelectSeq(driverCalls, LAMBDA c : c[1] \notin {"cursor", "cursor.close"})

Called(name) == \E i \in 1..Len(driverCalls) : driverCalls[i][1] = name

\* C9: execute_query calls cursor.execute(query), then commit, then fetchall;
\* commit exactly when execute returned, fetchall only after commit returned;
\* it never rolls back and never closes the connection.
C9_DriverCallOrder ==
    op = "execute_query"
        => LET full == <<<<"execute", args.query>>, <<"commit">>, <<"fetchall">>>>
           IN /\ Len(BodyCalls) <= 3
              /\ BodyCalls = SubSeq(full, 1, Len(BodyCalls))
              /\ Called("commit")
                   <=> (CursorAcquired /\ env.fails # "execute")
              /\ Called("fetchall")
                   => (CursorAcquired /\ env.fails \notin {"execute", "commit"})
              /\ ~Called("rollback")
              /\ ~Called("close")
              /\ connection = args.connection

C9_Witness ==
    /\ op = "execute_query"
    /\ CursorAcquired
    /\ env.fails = "execute"
    /\ ~Called("commit")
    /\ ~Called("fetchall")
    /\ Called("execute")

\* C10: after a failed create_db_connection the None it returned can be
\* passed on: execute_query(None, q) returns None and close_db_connection(None)
\* returns, without a statement executed or a commit issued; closing an
\* already closed connection returns as well.
C10_NoneChain ==
    /\ (op = "execute_query" /\ args.connection = "None")
         => /\ outcome = "return"
            /\ ret.kind = "None"
            /\ ~Called("execute")
            /\ ~Called("commit")
    /\ op = "close_db_connection"
         => /\ outcome = "return"
            /\ ~Called("execute")
            /\ ~Called("commit")
    /\ (op = "create_db_connection" /\ env.connect = "raise")
         => (outcome = "return" /\ ret.kind = "None" /\ connection = "None")

C10_Witness ==
    /\ op = "execute_query"
    /\ args.connection = "None"
    /\ connection = "None"
    /\ outcome = "return"
    /\ ret.kind = "None"

====
